---- MODULE Spec2Model ----
(***************************************************************************)
(* Model of the batch merge-conflict resolver of Naming-Nosferatu:         *)
(* src/resolve_conflicts.py (variant "v1") and src/resolve_conflicts_v2.py *)
(* (variant "v2").  A file's content is a sequence of characters; the      *)
(* multi-character literals of the pattern ("<<<<<<<", "=======",          *)
(* ">>>>>>>", "HEAD") are single tokens of that sequence, every other      *)
(* token is one character.  The regular expression is evaluated the way    *)
(* Python's re module evaluates it: leftmost match, each lazy .*? (DOTALL) *)
(* ending at the first place the rest of the pattern can continue.         *)
(***************************************************************************)
EXTENDS Integers, Sequences, FiniteSets, TLC

VARIABLES
    variant,   \* which script runs: "v1" or "v2"
    filenames, \* filenames[i]: the file name's suffix, in os.walk order
    disk,      \* disk[i]: the content of file i (sequence of tokens)
    cursor,    \* index of the file the loop visits next
    pc,        \* "walk" | "done" | "crashed"
    count,     \* the module-level counter `count`
    out,       \* what has been printed in this run
    shape,     \* history: how each file's first content was built
    runStart,  \* history: the disk when the current run started
    opened,    \* history: files opened for reading in this run
    wrote,     \* history: files opened for writing in this run
    ret,       \* history: ret[i] is what resolve_file returned for file i
    err        \* history: 0, or the file whose resolve_file raised

vars == <<variant, filenames, disk, cursor, pc, count, out, shape,
          runStart, opened, wrote, ret, err>>

(***************************************************************************)
(* Bounds                                                                  *)
(***************************************************************************)
MaxSegs == 3     \* segments of the single file of a one-file tree
MaxFiles == 3    \* files of a several-file tree

(***************************************************************************)
(* Characters                                                              *)
(***************************************************************************)
LT7 == "<<<<<<<"
EQ7 == "======="
GT7 == ">>>>>>>"
HEAD == "HEAD"
SP == " "
NL == "NL"
BAD == "0xFF"     \* a byte that is not valid text in the default encoding

\* number of characters a token stands for
CharLen(t) == IF t \in {LT7, EQ7, GT7} THEN 7 ELSE IF t = HEAD THEN 4 ELSE 1

RECURSIVE Size(_)
Size(s) == IF s = <<>> THEN 0 ELSE CharLen(Head(s)) + Size(Tail(s))

\* f.read() in text mode raises UnicodeDecodeError on an invalid byte
Decodable(s) == \A k \in 1..Len(s) : s[k] # BAD

(***************************************************************************)
(* The pattern                                                             *)
(***************************************************************************)
\* the literal lit occurs in s at index i
IsAt(s, lit, i) ==
    /\ i >= 1
    /\ i + Len(lit) - 1 <= Len(s)
    /\ \A k \in 1..Len(lit) : s[i + k - 1] = lit[k]

\* the least member of a set of indices, 0 for the empty set
Least(c) == IF c = {} THEN 0 ELSE CHOOSE i \in c : \A j \in c : i <= j

\* least index >= from where lit occurs in s, 0 when there is none:
\* where a lazy .*? (DOTALL) followed by lit ends
Find(s, lit, from) ==
    Least({i \in from..(Len(s) - Len(lit) + 1) : IsAt(s, lit, i)})

SepLit == <<NL, EQ7, NL>>        \* \n=======\n
CloseLit == <<NL, GT7, SP>>      \* \n>>>>>>>  followed by one space

\* A mutation of OpenEnd: the label after the open marker is not looked at.
OpenEndAnyLabel(v, s, p) ==
    IF ~IsAt(s, <<LT7>>, p) THEN 0
    ELSE Least({n + 1 : n \in {Find(s, <<NL>>, p + 1)} \ {0}})

\* Index where group 1 starts when the head of the pattern matches at p,
\* 0 when it does not.  v1: <<<<<<< HEAD\n   v2: <<<<<<< HEAD.*?\n
OpenEnd(v, s, p) ==
    IF v = "v1"
    THEN IF IsAt(s, <<LT7, SP, HEAD, NL>>, p) THEN p + 4 ELSE 0
    ELSE IF ~IsAt(s, <<LT7, SP, HEAD>>, p) THEN 0
         ELSE Least({n + 1 : n \in {Find(s, <<NL>>, p + 3)} \ {0}})

NoMatch == [ok |-> FALSE, gs |-> 0, ge |-> 0, end |-> 0]

\* The match of the whole pattern starting at p: group 1 is s[gs..ge], the
\* match ends just before index end.  g, q, r and e are where group 1
\* starts and where \n=======\n, \n>>>>>>> and the last \n are first found,
\* each from the end of the one before (each index is bound once, by a
\* quantifier over a one-element set).
MatchAt(v, s, p) ==
    CHOOSE m \in
      UNION { IF g = 0 THEN {NoMatch} ELSE
        UNION { IF q = 0 THEN {NoMatch} ELSE
          UNION { IF r = 0 THEN {NoMatch} ELSE
            { IF e = 0 THEN NoMatch
              ELSE [ok |-> TRUE, gs |-> g, ge |-> q - 1, end |-> e + 1]
              : e \in {Find(s, <<NL>>, r + 3)} }
            : r \in {Find(s, CloseLit, q + 3)} }
          : q \in {Find(s, SepLit, g)} }
        : g \in {OpenEnd(v, s, p)} } : TRUE

\* pattern.search(content, pos): start of the leftmost match at or after
\* from, 0 when there is none
Search(v, s, from) == Least({p \in from..Len(s) : MatchAt(v, s, p).ok})

\* pattern.sub(r'\1\n', content), scanning from index pos: the text up to
\* the next match, group 1 and a newline in place of the match, and so on
\* from the end of the match
RECURSIVE SubFrom(_, _, _)
SubFrom(v, s, pos) ==
    CHOOSE t \in
      UNION { IF p = 0 THEN {SubSeq(s, pos, Len(s))}
        ELSE { SubSeq(s, pos, p - 1) \o SubSeq(s, m.gs, m.ge) \o <<NL>>
                   \o SubFrom(v, s, m.end)
               : m \in {MatchAt(v, s, p)} }
        : p \in {Search(v, s, pos)} } : TRUE

Sub(v, s) == SubFrom(v, s, 1)

(***************************************************************************)
(* The inputs: files built from lines                                      *)
(***************************************************************************)
OpenHead == <<LT7, SP, HEAD>>
OpenBare == <<LT7>>
OpenOther == <<LT7, SP, "x">>
OpenHeadX == <<LT7, SP, HEAD, ":", "x">>
OpenMid == <<"c", LT7, SP, HEAD>>
SepLine == <<EQ7>>
CloseLine == <<GT7, SP, "x">>

\* the lines of a segment
SegLines(k) ==
    CASE k = "LineC" -> << <<"c">> >>
      [] k = "LineOpen" -> << OpenHead >>
      [] k = "LineSep" -> << SepLine >>
      [] k = "LineClose" -> << CloseLine >>
      [] k = "Block" -> << OpenHead, <<"a">>, SepLine, <<"b">>, CloseLine >>
      [] k = "BlockEmptyOurs" -> << OpenHead, SepLine, <<"b">>, CloseLine >>
      [] k = "BlockEmptyTheirs" -> << OpenHead, <<"a">>, SepLine, CloseLine >>
      [] k = "BlockBare" -> << OpenBare, <<"a">>, SepLine, <<"b">>, CloseLine >>
      [] k = "BlockOther" -> << OpenOther, <<"a">>, SepLine, <<"b">>, CloseLine >>
      [] k = "BlockHeadX" -> << OpenHeadX, <<"a">>, SepLine, <<"b">>, CloseLine >>
      [] k = "BlockMid" -> << OpenMid, <<"a">>, SepLine, <<"b">>, CloseLine >>
      [] k = "Tail" -> << SepLine, <<"b">>, CloseLine >>

SegKinds == {"LineC", "LineOpen", "LineSep", "LineClose", "Block",
             "BlockEmptyOurs", "BlockEmptyTheirs", "BlockBare", "BlockOther",
             "BlockHeadX", "BlockMid", "Tail"}

RECURSIVE Flatten(_)
Flatten(ss) == IF ss = <<>> THEN <<>> ELSE Head(ss) \o Flatten(Tail(ss))

\* the lines joined, each ended by a newline
RECURSIVE Join(_)
Join(lines) ==
    IF lines = <<>> THEN <<>> ELSE Head(lines) \o <<NL>> \o Join(Tail(lines))

AllLines(segs) == Flatten([k \in 1..Len(segs) |-> SegLines(segs[k])])

\* the content of a file: its lines, the last newline kept or not, after an
\* invalid byte when the file is not text
Render(f) ==
    LET body == Join(AllLines(f.segs))
        cut == IF f.eofnl \/ body = <<>> THEN body
               ELSE SubSeq(body, 1, Len(body) - 1)
    IN  (IF f.bad THEN <<BAD>> ELSE <<>>) \o cut

SeqsUpTo(S, n) == UNION {[1..k -> S] : k \in 1..n}

\* a tree of one text file
OneFileTrees ==
    { << [name |-> ".ts", segs |-> ss, eofnl |-> e, bad |-> FALSE] >> :
        ss \in SeqsUpTo(SegKinds, MaxSegs), e \in BOOLEAN }

TreeFiles ==
    { [name |-> ".ts", segs |-> <<"LineC">>, eofnl |-> FALSE, bad |-> FALSE],
      [name |-> ".tsx", segs |-> <<"Block">>, eofnl |-> TRUE, bad |-> FALSE],
      [name |-> ".ts", segs |-> <<"LineOpen", "Block", "Tail">>,
       eofnl |-> TRUE, bad |-> FALSE],
      [name |-> ".ts", segs |-> <<"Block">>, eofnl |-> TRUE, bad |-> TRUE],
      [name |-> ".md", segs |-> <<"Block">>, eofnl |-> TRUE, bad |-> FALSE] }

\* a tree of several files
ManyFileTrees == {<<>>} \cup SeqsUpTo(TreeFiles, MaxFiles)

(***************************************************************************)
(* The script                                                              *)
(***************************************************************************)
\* filename.endswith(('.ts', '.tsx'))
IsCandidate(n) == n \in {".ts", ".tsx"}

NFiles == Len(disk)

Init ==
    /\ variant \in {"v1", "v2"}
    /\ shape \in OneFileTrees \cup ManyFileTrees
    /\ filenames = [i \in 1..Len(shape) |-> shape[i].name]
    /\ disk = [i \in 1..Len(shape) |-> Render(shape[i])]
    /\ runStart = disk
    /\ cursor = 1
    /\ pc = "walk"
    /\ count = 0
    /\ out = <<>>
    /\ opened = {}
    /\ wrote = {}
    /\ ret = [i \in 1..Len(shape) |-> "none"]
    /\ err = 0

Visiting == pc = "walk" /\ cursor <= NFiles

\* the loop passes a file whose name does not end in .ts or .tsx
SkipFile ==
    /\ Visiting
    /\ ~IsCandidate(filenames[cursor])
    /\ cursor' = cursor + 1
    /\ UNCHANGED <<variant, filenames, disk, pc, count, out, shape,
                   runStart, opened, wrote, ret, err>>

\* v1: f.read() raises UnicodeDecodeError, nothing catches it, the script ends
ReadRaises ==
    /\ Visiting
    /\ IsCandidate(filenames[cursor])
    /\ ~Decodable(disk[cursor])
    /\ variant = "v1"
    /\ opened' = opened \cup {cursor}
    /\ ret' = [ret EXCEPT ![cursor] = "raise"]
    /\ err' = cursor
    /\ pc' = "crashed"
    /\ UNCHANGED <<variant, filenames, disk, cursor, count, out, shape,
                   runStart, wrote>>

\* A mutation of ReturnFalse: the early return on "no match" is missing, the
\* unchanged content is written back and the file is reported as resolved.
ReturnFalseWrites ==
    /\ Visiting
    /\ IsCandidate(filenames[cursor])
    /\ \/ ~Decodable(disk[cursor]) /\ variant = "v2"
       \/ Decodable(disk[cursor]) /\ Search(variant, disk[cursor], 1) = 0
    /\ opened' = opened \cup {cursor}
    /\ wrote' = wrote \cup {cursor}
    /\ ret' = [ret EXCEPT ![cursor] = "True"]
    /\ out' = Append(out, [t |-> "Resolved", v |-> cursor])
    /\ count' = count + 1
    /\ cursor' = cursor + 1
    /\ UNCHANGED <<variant, filenames, disk, pc, shape, runStart, err>>

\* resolve_file returns False: v2 on a file that does not decode, either
\* variant on a file the pattern does not match
ReturnFalse ==
    /\ Visiting
    /\ IsCandidate(filenames[cursor])
    /\ \/ ~Decodable(disk[cursor]) /\ variant = "v2"
       \/ Decodable(disk[cursor]) /\ Search(variant, disk[cursor], 1) = 0
    /\ opened' = opened \cup {cursor}
    /\ ret' = [ret EXCEPT ![cursor] = "False"]
    /\ cursor' = cursor + 1
    /\ UNCHANGED <<variant, filenames, disk, pc, count, out, shape,
                   runStart, wrote, err>>

\* resolve_file writes the substituted content and returns True; the loop
\* prints the path and counts it
ReturnTrue ==
    /\ Visiting
    /\ IsCandidate(filenames[cursor])
    /\ Decodable(disk[cursor])
    /\ Search(variant, disk[cursor], 1) # 0
    /\ opened' = opened \cup {cursor}
    /\ wrote' = wrote \cup {cursor}
    /\ disk' = [disk EXCEPT ![cursor] = Sub(variant, disk[cursor])]
    /\ ret' = [ret EXCEPT ![cursor] = "True"]
    /\ out' = Append(out, [t |-> "Resolved", v |-> cursor])
    /\ count' = count + 1
    /\ cursor' = cursor + 1
    /\ UNCHANGED <<variant, filenames, pc, shape, runStart, err>>

\* what a failed write leaves in the file: untouched when open(.., 'w')
\* fails; empty when the open has truncated the file and the buffered text
\* (new, far below the buffer size) cannot be flushed by f.write or the close
LeftByFailedWrite(old, new) == {old, <<>>}

\* A mutation of WriteRaises: the error is swallowed and the loop goes on.
WriteRaisesSwallowed ==
    /\ Visiting
    /\ IsCandidate(filenames[cursor])
    /\ Decodable(disk[cursor])
    /\ Search(variant, disk[cursor], 1) # 0
    /\ opened' = opened \cup {cursor}
    /\ wrote' = wrote \cup {cursor}
    /\ \E c \in LeftByFailedWrite(disk[cursor], Sub(variant, disk[cursor])) :
           disk' = [disk EXCEPT ![cursor] = c]
    /\ ret' = [ret EXCEPT ![cursor] = "raise"]
    /\ err' = cursor
    /\ cursor' = cursor + 1
    /\ UNCHANGED <<variant, filenames, pc, count, out, shape, runStart>>

\* the write of the substituted content fails: the OSError leaves
\* resolve_file and the loop, the script ends with a traceback
WriteRaises ==
    /\ Visiting
    /\ IsCandidate(filenames[cursor])
    /\ Decodable(disk[cursor])
    /\ Search(variant, disk[cursor], 1) # 0
    /\ opened' = opened \cup {cursor}
    /\ wrote' = wrote \cup {cursor}
    /\ \E c \in LeftByFailedWrite(disk[cursor], Sub(variant, disk[cursor])) :
           disk' = [disk EXCEPT ![cursor] = c]
    /\ ret' = [ret EXCEPT ![cursor] = "raise"]
    /\ err' = cursor
    /\ pc' = "crashed"
    /\ UNCHANGED <<variant, filenames, cursor, count, out, shape, runStart>>

\* after the walk: print(f"Total files resolved: {count}")
PrintTotal ==
    /\ pc = "walk"
    /\ cursor > NFiles
    /\ out' = Append(out, [t |-> "Total", v |-> count])
    /\ pc' = "done"
    /\ UNCHANGED <<variant, filenames, disk, cursor, count, shape,
                   runStart, opened, wrote, ret, err>>

\* the script is started again on the same tree
Rerun ==
    /\ pc \in {"done", "crashed"}
    /\ pc' = "walk"
    /\ cursor' = 1
    /\ count' = 0
    /\ out' = <<>>
    /\ runStart' = disk
    /\ opened' = {}
    /\ wrote' = {}
    /\ ret' = [i \in 1..NFiles |-> "none"]
    /\ err' = 0
    /\ UNCHANGED <<variant, filenames, disk, shape>>

Next ==
    \/ SkipFile
    \/ ReadRaises
    \/ ReturnFalse
    \/ ReturnTrue
    \/ WriteRaises
    \/ PrintTotal
    \/ Rerun

Spec == Init /\ [][Next]_vars

\* the tool is re-run for ever, every step of a run is taken, and the write
\* of a file does not fail for ever
InitTrees == Init /\ shape \in ManyFileTrees

FairSpec ==
    InitTrees /\ [][Next]_vars /\ WF_vars(Next) /\ SF_vars(ReturnTrue)

(***************************************************************************)
(* Vocabulary of the properties                                            *)
(***************************************************************************)
Files == 1..NFiles
Initial(i) == Render(shape[i])
FirstPass(i) == runStart[i] = Initial(i)
Returned(i) == ret[i] \in {"True", "False"}
Printed(i) == \E k \in 1..Len(out) : out[k] = [t |-> "Resolved", v |-> i]
TotalPrinted == \E k \in 1..Len(out) : out[k].t = "Total"
RunEnded == pc \in {"done", "crashed"}
Markers == {LT7, EQ7, GT7}
HasMarker(s) == \E k \in 1..Len(s) : s[k] \in Markers
SegsOf(i) == {shape[i].segs[k] : k \in 1..Len(shape[i].segs)}

RECURSIVE TotalSize(_)
TotalSize(d) == IF d = <<>> THEN 0 ELSE Size(Head(d)) + TotalSize(Tail(d))

\* the ours body of a block, as lines; blank is what an empty ours body
\* becomes
Ours(k, blank) == IF k = "BlockEmptyOurs" THEN blank ELSE << <<"a">> >>

\* the file f with every block of a kind in R replaced by its ours body and
\* every other line kept
RenderWith(f, R, blank) ==
    LET lines == Flatten([k \in 1..Len(f.segs) |->
                     IF f.segs[k] \in R THEN Ours(f.segs[k], blank)
                     ELSE SegLines(f.segs[k])])
        body == Join(lines)
    IN  IF f.eofnl \/ body = <<>> THEN body
        ELSE SubSeq(body, 1, Len(body) - 1)

HeadBlocks == {"Block", "BlockEmptyOurs", "BlockEmptyTheirs"}
LabelBlocks == {"Block", "BlockBare", "BlockOther", "BlockHeadX"}

\* the open-marker lines the pattern of each variant accepts
HeadKinds(v) == IF v = "v1" THEN {"Block"} ELSE {"Block", "BlockHeadX"}

(***************************************************************************)
(* C1                                                                      *)
(***************************************************************************)
\* C1: idempotence.  When a run starts with a file holding the output c1 of
\* one resolution pass over a decodable content c, resolve_file returns
\* False for it and leaves it equal to c1.
C1_Idempotent ==
    \A i \in Files :
        (Decodable(Initial(i)) /\ runStart[i] = Sub(variant, Initial(i))
           /\ Returned(i))
        => (ret[i] = "False" /\ disk[i] = runStart[i])

(***************************************************************************)
(* C2                                                                      *)
(***************************************************************************)
\* C2: ours-only extraction.  A newline-terminated file made of ordinary
\* lines and at least one well-formed block (ours and theirs bodies of zero
\* or more lines) is rewritten to the same lines with each block replaced by
\* its ours-body lines.
C2_OursOnly ==
    \A i \in Files :
        (/\ ~shape[i].bad /\ shape[i].eofnl
         /\ SegsOf(i) \subseteq HeadBlocks \cup {"LineC"}
         /\ SegsOf(i) \cap HeadBlocks # {}
         /\ FirstPass(i) /\ Returned(i))
        => (ret[i] = "True" /\ disk[i] = RenderWith(shape[i], HeadBlocks, <<>>))

\* The same with both bodies of every block non-empty: this the pattern does.
StandardBlocksResolved ==
    \A i \in Files :
        (/\ ~shape[i].bad /\ shape[i].eofnl
         /\ SegsOf(i) \subseteq {"Block", "LineC"}
         /\ "Block" \in SegsOf(i)
         /\ FirstPass(i) /\ Returned(i))
        => (ret[i] = "True" /\ disk[i] = RenderWith(shape[i], {"Block"}, <<>>))

(***************************************************************************)
(* C3                                                                      *)
(***************************************************************************)
\* C3: malformed block left intact.  In a file of ordinary lines, well-formed
\* blocks and open-marker lines that no separator and close marker follow
\* before the next open marker, the lone open markers and their regions stay
\* as they are and the well-formed blocks are resolved; a file with an open
\* marker and no close marker is neither written nor reported.
C3_MalformedIntact ==
    \A i \in Files :
        (/\ ~shape[i].bad /\ shape[i].eofnl
         /\ SegsOf(i) \subseteq {"LineC", "LineOpen", "Block"}
         /\ "LineOpen" \in SegsOf(i)
         /\ FirstPass(i) /\ ret[i] # "none")
        => /\ ret[i] # "raise" \/ i \in wrote
           /\ Returned(i) => disk[i] = RenderWith(shape[i], {"Block"}, <<>>)
           /\ "Block" \notin SegsOf(i)
                => (ret[i] = "False" /\ i \notin wrote /\ ~Printed(i))

(***************************************************************************)
(* C4                                                                      *)
(***************************************************************************)
\* C4: decode failure isolation.  A first run over a tree with exactly one
\* undecodable candidate file, in which no write fails, ends with the total
\* printed, every other candidate file that holds a block resolved, the
\* undecodable file unwritten and uncounted, and its outcome different from
\* the outcome of an unchanged file.
C4_DecodeIsolation ==
    LET U == {i \in Files : IsCandidate(filenames[i]) /\ ~Decodable(runStart[i])}
    IN  (/\ Cardinality(U) = 1
         /\ \A i \in Files : FirstPass(i)
         /\ RunEnded
         /\ err \notin wrote)
        => /\ pc = "done"
           /\ \A i \in Files \ U :
                  (IsCandidate(filenames[i]) /\ "Block" \in SegsOf(i))
                  => (ret[i] = "True" /\ disk[i] = Sub(variant, runStart[i]))
           /\ \A u \in U :
                  /\ u \notin wrote
                  /\ disk[u] = runStart[u]
                  /\ ~Printed(u)
                  /\ ret[u] # "False"
           /\ count = Cardinality({i \in Files : ret[i] = "True"})

(***************************************************************************)
(* C5                                                                      *)
(***************************************************************************)
\* C5: no-op on files without conflicts.  Whenever resolve_file has returned
\* for a file, it returned True exactly when the pattern matched the content
\* it read, exactly when it opened the file for writing and exactly when the
\* content changed; a file it returned False for is byte for byte what it was
\* and is not printed; count is the number of files it returned True for.
C5_NoOpWithoutMatch ==
    /\ \A i \in Files :
           Returned(i) =>
               /\ ret[i] = "True" <=> i \in wrote
               /\ ret[i] = "True" <=> disk[i] # runStart[i]
               /\ ret[i] = "True" <=>
                      (Decodable(runStart[i])
                          /\ Search(variant, runStart[i], 1) # 0)
               /\ ret[i] = "True" <=> Printed(i)
    /\ \A i \in Files :
           ret[i] = "none" => (disk[i] = runStart[i] /\ i \notin wrote)
    /\ count = Cardinality({i \in Files : ret[i] = "True"})

\* C5 witness: a run has ended in which a file without a trailing newline
\* and without conflicts was left alone and another file was resolved.
C5_Witness ==
    /\ pc = "done"
    /\ \E i, j \in Files :
           /\ ret[i] = "False" /\ ~shape[i].eofnl /\ Decodable(disk[i])
           /\ disk[i] # <<>> /\ disk[i][Len(disk[i])] # NL
           /\ ret[j] = "True"

(***************************************************************************)
(* C6                                                                      *)
(***************************************************************************)
\* C6: empty ours-body.  A newline-terminated file of ordinary lines and
\* blocks, one of them with the separator directly after the open marker,
\* is rewritten with that block replaced by one blank line: no marker is
\* left and the lines outside the blocks are kept.
C6_EmptyOurs ==
    \A i \in Files :
        (/\ ~shape[i].bad /\ shape[i].eofnl
         /\ SegsOf(i) \subseteq {"LineC", "Block", "BlockEmptyOurs"}
         /\ "BlockEmptyOurs" \in SegsOf(i)
         /\ FirstPass(i) /\ Returned(i))
        => /\ ~HasMarker(disk[i])
           /\ disk[i] = RenderWith(shape[i], {"Block", "BlockEmptyOurs"},
                                   << <<>> >>)

(***************************************************************************)
(* C7                                                                      *)
(***************************************************************************)
\* C7: fail-fast on write failure.  Once the write of a file f has failed in
\* a run, the run has ended at f: no later file has been read or changed, f
\* is neither counted nor printed, the total is not printed, and the files
\* resolved before f hold their resolved content.
C7_FailFast ==
    (err # 0 /\ err \in wrote) =>
        /\ pc = "crashed"
        /\ cursor = err
        /\ \A j \in Files :
               j > err =>
                   (j \notin opened /\ ret[j] = "none" /\ disk[j] = runStart[j])
        /\ ~Printed(err)
        /\ count = Cardinality({j \in Files : Printed(j)})
        /\ ~TotalPrinted
        /\ \A j \in Files :
               (j < err /\ ret[j] = "True")
               => (Printed(j) /\ disk[j] = Sub(variant, runStart[j])
                      /\ disk[j] # runStart[j])

\* C7 witness: the write of the second of three files failed after the first
\* was resolved, and the third still holds a block.
C7_Witness ==
    /\ NFiles = 3
    /\ pc = "crashed" /\ err = 2 /\ 2 \in wrote
    /\ ret[1] = "True"
    /\ IsCandidate(filenames[3]) /\ Decodable(disk[3])
    /\ Search(variant, disk[3], 1) # 0

C9_LineAnchored ==
    \A i \in Files :
        (/\ ~shape[i].bad
         /\ SegsOf(i) \subseteq {"LineC", "BlockMid"}
         /\ FirstPass(i) /\ Returned(i))
        => (ret[i] = "False" /\ disk[i] = runStart[i])

(***************************************************************************)
(* C10                                                                     *)
(***************************************************************************)
\* C10: convergence of repeated runs.  A run that resolved a file ends with
\* the tree strictly smaller than it started, and when the tool is re-run
\* for ever a run comes that reports 0 files resolved and changes nothing.
C10_Converges ==
    /\ [](RunEnded /\ count > 0 => TotalSize(disk) < TotalSize(runStart))
    /\ <>(pc = "done" /\ count = 0 /\ disk = runStart)

\* With v2, or when every candidate file of the tree is text, the runs do
\* converge: a run comes that reports 0 files resolved and changes nothing.
ConvergesWhenReadable ==
    (\/ variant = "v2"
     \/ \A i \in 1..Len(shape) : IsCandidate(shape[i].name) => ~shape[i].bad)
    => <>(pc = "done" /\ count = 0 /\ disk = runStart)

\* Every call of resolve_file that returns True leaves the file strictly
\* shorter, and a run that counts no file leaves every file as it was unless
\* a write failed.
ResolvingShrinks ==
    /\ \A i \in Files : ret[i] = "True" => Size(disk[i]) < Size(runStart[i])
    /\ (count = 0 /\ err \notin wrote) => disk = runStart

====
